---- MODULE Spec2Model ----
(***************************************************************************)
(* Model of the QuickJS bridge in src/examples/ffi.c: the Runtime Context  *)
(* (RuntimeOpaque) with its interrupt monitor, the class/opaque registry   *)
(* with its finalizer, and the Value Box reference counting.               *)
(*                                                                         *)
(* Three specifications share the variables:                               *)
(*   Spec     the interrupt monitor and the bridge calls that enter the    *)
(*            engine (js_begin_call, js_interrupt_handler, js_channel)     *)
(*   SpecObj  runtime lifecycle, jsNewClass, jsNewObjectClass, finalizer   *)
(*   SpecBox  jsDupValue / jsFreeValue on boxes of one engine value        *)
(***************************************************************************)
EXTENDS Integers, Sequences, FiniteSets

VARIABLES
  \* ---- Runtime Context (RuntimeOpaque, ffi.c:40-45) and the clock
  clock,      \* value returned by clock()
  timeout,    \* RuntimeOpaque.timeout
  start,      \* RuntimeOpaque.start
  stack,      \* bridge calls in flight, innermost last
  signal,     \* return value of the last js_interrupt_handler poll
  lastOp,     \* name of the last operation of the interrupt specification
  \* ---- runtime lifecycle and class/opaque registry
  rtState,    \* "alive" | "teardown" (inside JS_FreeRuntime) | "dead"
  ctxMem,     \* the malloc'ed RuntimeOpaque: "allocated" | "freed"
  ctxFrees,   \* number of _CPP_DELETE_RT calls
  slot,       \* JS_GetRuntimeOpaque(rt): "ctx" | "NULL"
  uaf,        \* a freed RuntimeOpaque was dereferenced
  classAlloc, \* the engine's next unused class id
  registered, \* class ids registered in the runtime
  classRet,   \* class name -> sequence of ids jsNewClass returned for it
  pendingExc, \* the context holds a pending exception
  objs,       \* object id -> record of the object made by jsNewObjectClass
  freeLog,    \* FREE_OBJECT dispatches made, in order
  lastDispatch, \* kind of the last Dispatch Channel call
  \* ---- Value Boxes of one engine value
  boxes,      \* box id -> record of the Box
  rc,         \* engine reference count of the value
  preDup,     \* reference count right after the value was boxed
  nDup,       \* number of duplications made
  overRelease,\* JS_FreeValue ran on a value whose count was already zero
  lastFlag,   \* the `free` flag of the last jsFreeValue / jsFreeValueRT
  boxOp       \* name of the last operation on the Boxes

intrVars == <<clock, timeout, start, stack, signal, lastOp>>
objVars  == <<rtState, ctxMem, ctxFrees, slot, uaf, classAlloc, registered,
              classRet, pendingExc, objs, freeLog, lastDispatch>>
boxVars  == <<boxes, rc, preDup, nDup, overRelease, lastFlag, boxOp>>
vars     == <<intrVars, objVars, boxVars>>

----------------------------------------------------------------------------
\* Bounds

MaxClock == 5
MaxDepth == 2
MaxClassIds == 3
MaxObjs == 2
MaxBoxes == 3

\* Program constants
CLOCKS_PER_SEC == 1000
FirstClassId == 1

Timeouts == {0, 1, 2}
ClassNames == {"A", "B"}
Ptrs == 1..MaxObjs
Flags == {0, 1}
StampedOps == {"jsEval", "jsCall", "jsToCString", "jsExecutePendingJob"}
UnstampedOps == {"jsGetProperty", "jsToInt64"}

----------------------------------------------------------------------------
\* Helpers

\* C integer division (truncation toward zero)
CDiv(a, b) ==
  IF a >= 0 THEN a \div b ELSE -((-a) \div b)

Top == stack[Len(stack)]

\* values the other specifications never change
IntrIdle ==
  /\ clock = 0 /\ timeout = 0 /\ start = 0 /\ stack = <<>>
  /\ signal = 0 /\ lastOp = "init"

ObjIdle ==
  /\ rtState = "alive" /\ ctxMem = "allocated" /\ ctxFrees = 0
  /\ slot = "ctx" /\ uaf = FALSE
  /\ classAlloc = FirstClassId /\ registered = {}
  /\ classRet = [n \in ClassNames |-> <<>>]
  /\ pendingExc = FALSE
  /\ objs = <<>> /\ freeLog = <<>> /\ lastDispatch = "none"

BoxIdle ==
  /\ boxes = <<>> /\ rc = 0 /\ preDup = 0 /\ nDup = 0
  /\ overRelease = FALSE /\ lastFlag = 0 /\ boxOp = "init"

----------------------------------------------------------------------------
\* Runtime Context and interrupt monitor

\* _CPP_NEW_RT(channel, timeout, start): the fields of the new context
CPP_NEW_RT(t, s) == [timeout |-> t, start |-> s]

\* the condition of js_interrupt_handler
InterruptFires_NoTimeoutCheck(t, s, c) ==
  s # 0 /\ (c - s) > CDiv(t * CLOCKS_PER_SEC, 1000)

InterruptFires(t, s, c) ==
  t # 0 /\ s # 0 /\ (c - s) > CDiv(t * CLOCKS_PER_SEC, 1000)

\* js_interrupt_handler: the return value and the new op->start
js_interrupt_handler_NoReset(t, s, c) ==
  IF InterruptFires(t, s, c)
    THEN [ret |-> 1, start |-> s]
    ELSE [ret |-> 0, start |-> s]

js_interrupt_handler(t, s, c) ==
  IF InterruptFires(t, s, c)
    THEN [ret |-> 1, start |-> 0]
    ELSE [ret |-> 0, start |-> s]

\* js_begin_call: the new opaque->start
js_begin_call_OnlyIfIdle(opq, s, c) ==
  IF opq # "NULL" /\ s = 0 THEN c ELSE s

js_begin_call(opq, s, c) ==
  IF opq # "NULL" THEN c ELSE s

\* start after entering bridge operation op
StartOnEntry(op) ==
  IF op \in StampedOps THEN js_begin_call(slot, start, clock) ELSE start

\* a bridge call that enters the engine; it is issued by the host, either
\* from the top level or from inside a host callback (js_channel)
Enter(op) ==
  /\ Len(stack) < MaxDepth
  /\ IF stack = <<>> THEN TRUE ELSE Top.mode = "host"
  /\ start' = StartOnEntry(op)
  /\ stack' = Append(
       [i \in 1..Len(stack) |->
          [stack[i] EXCEPT !.nested = @ \/ (op \in StampedOps)]],
       [op |-> op, mode |-> "engine", entry |-> clock,
        aborts |-> 0, nested |-> FALSE])
  /\ lastOp' = op
  /\ UNCHANGED <<clock, timeout, signal>>
  /\ UNCHANGED <<objVars, boxVars>>

jsEval == Enter("jsEval")
jsCall == Enter("jsCall")
jsToCString == Enter("jsToCString")
jsExecutePendingJob == Enter("jsExecutePendingJob")
jsGetProperty == Enter("jsGetProperty")
jsToInt64 == Enter("jsToInt64")

\* the engine returns from the innermost bridge call, normally or after
\* an abort; the bridge leaves RuntimeOpaque.start as it is
Return ==
  /\ stack # <<>>
  /\ Top.mode \in {"engine", "unwind"}
  /\ stack' = SubSeq(stack, 1, Len(stack) - 1)
  /\ lastOp' = "return"
  /\ UNCHANGED <<clock, timeout, start, signal>>
  /\ UNCHANGED <<objVars, boxVars>>

\* js_channel: the script calls a host-backed function (METHOD dispatch)
js_channel ==
  /\ stack # <<>>
  /\ Top.mode = "engine"
  /\ stack' = [stack EXCEPT ![Len(stack)].mode = "host"]
  /\ lastOp' = "js_channel"
  /\ UNCHANGED <<clock, timeout, start, signal>>
  /\ UNCHANGED <<objVars, boxVars>>

\* the host callback returns its Box to js_channel
ChannelReturn ==
  /\ stack # <<>>
  /\ Top.mode = "host"
  /\ stack' = [stack EXCEPT ![Len(stack)].mode = "engine"]
  /\ lastOp' = "channel_return"
  /\ UNCHANGED <<clock, timeout, start, signal>>
  /\ UNCHANGED <<objVars, boxVars>>

\* the engine polls js_interrupt_handler while it executes script
Poll ==
  /\ stack # <<>>
  /\ Top.mode = "engine"
  /\ LET r == js_interrupt_handler(timeout, start, clock) IN
       /\ signal' = r.ret
       /\ start' = r.start
       /\ stack' =
            IF r.ret = 1
              THEN [i \in 1..Len(stack) |->
                     [stack[i] EXCEPT
                        !.aborts = @ + 1,
                        !.mode = IF i = Len(stack) THEN "unwind" ELSE @]]
              ELSE stack
  /\ lastOp' = "poll"
  /\ UNCHANGED <<clock, timeout>>
  /\ UNCHANGED <<objVars, boxVars>>

\* time passes
Tick ==
  /\ clock < MaxClock
  /\ clock' = clock + 1
  /\ lastOp' = "tick"
  /\ UNCHANGED <<timeout, start, stack, signal>>
  /\ UNCHANGED <<objVars, boxVars>>

\* state after jsNewRuntime(channel, t)
Init ==
  /\ \E t \in Timeouts :
       /\ timeout = CPP_NEW_RT(t, 0).timeout
       /\ start = CPP_NEW_RT(t, 0).start
  /\ clock = 0
  /\ stack = <<>>
  /\ signal = 0
  /\ lastOp = "init"
  /\ ObjIdle
  /\ BoxIdle

Next ==
  \/ jsEval
  \/ jsCall
  \/ jsToCString
  \/ jsExecutePendingJob
  \/ jsGetProperty
  \/ jsToInt64
  \/ Return
  \/ js_channel
  \/ ChannelReturn
  \/ Poll
  \/ Tick

Spec == Init /\ [][Next]_vars

----------------------------------------------------------------------------
\* Runtime lifecycle and the class/opaque registry

\* JS_NewClassID(&id) of the engine: a zero slot gets the next unused id
JS_NewClassID(pid, alloc) ==
  IF pid = 0
    THEN [id |-> alloc, alloc |-> alloc + 1]
    ELSE [id |-> pid, alloc |-> alloc]

RegisteredIds == {r[1] : r \in registered}

\* JS_IsRegisteredClass(rt, id)
JS_IsRegisteredClass(id) == id \in RegisteredIds

\* jsNewClass(ctx, name); ok is the outcome of JS_NewClass (e >= 0)
jsNewClass ==
  \E name \in ClassNames, ok \in BOOLEAN :
    /\ rtState = "alive"
    /\ classAlloc < FirstClassId + MaxClassIds
    /\ LET QJSClassId == 0
           r == JS_NewClassID(QJSClassId, classAlloc)
       IN
         /\ classAlloc' = r.alloc
         /\ IF ~JS_IsRegisteredClass(r.id)
              THEN IF ok
                     THEN /\ registered' = registered \cup {<<r.id, name>>}
                          /\ classRet' =
                               [classRet EXCEPT ![name] = Append(@, r.id)]
                          /\ UNCHANGED pendingExc
                     ELSE /\ pendingExc' = TRUE
                          /\ classRet' =
                               [classRet EXCEPT ![name] = Append(@, 0)]
                          /\ UNCHANGED registered
              ELSE /\ classRet' = [classRet EXCEPT ![name] = Append(@, r.id)]
                   /\ UNCHANGED <<registered, pendingExc>>
    /\ UNCHANGED <<rtState, ctxMem, ctxFrees, slot, uaf, objs, freeLog,
                   lastDispatch>>
    /\ UNCHANGED <<intrVars, boxVars>>

\* jsGetException(ctx) takes the pending exception
jsGetException ==
  /\ rtState = "alive"
  /\ pendingExc
  /\ pendingExc' = FALSE
  /\ UNCHANGED <<rtState, ctxMem, ctxFrees, slot, uaf, classAlloc, registered,
                 classRet, objs, freeLog, lastDispatch>>
  /\ UNCHANGED <<intrVars, boxVars>>

\* JS_SetOpaque(*jsobj, opaque): the pointer stored in the object
SetOpaque_Dropped(p) == 0

SetOpaque(p) == p

\* jsNewObjectClass(ctx, id, p); ok: JS_NewObjectClass made an object
jsNewObjectClass ==
  \E id \in RegisteredIds, p \in Ptrs, ok \in BOOLEAN :
    /\ rtState = "alive"
    /\ Len(objs) < MaxObjs
    /\ \A o \in 1..Len(objs) : objs[o].given # p
    /\ IF ok
         THEN /\ objs' = Append(objs, [class |-> id, given |-> p,
                                       opaque |-> SetOpaque(p),
                                       state |-> "live"])
              /\ UNCHANGED pendingExc
         ELSE /\ pendingExc' = TRUE
              /\ UNCHANGED objs
    /\ UNCHANGED <<rtState, ctxMem, ctxFrees, slot, uaf, classAlloc,
                   registered, classRet, freeLog, lastDispatch>>
    /\ UNCHANGED <<intrVars, boxVars>>

\* jsNewClass_finalizer: whether it goes on to the dispatch
FinalizerDispatches_NoNullCheck(s) == TRUE

FinalizerDispatches(s) == s # "NULL"

\* jsNewClass_finalizer(rt, obj) for object o
Finalizer(o) ==
  IF FinalizerDispatches(slot)
    THEN /\ freeLog' = Append(freeLog, [ptr |-> objs[o].opaque, ctx |-> ctxMem])
         /\ uaf' = (uaf \/ ctxMem = "freed")
         /\ lastDispatch' = "FREE_OBJECT"
    ELSE UNCHANGED <<freeLog, uaf, lastDispatch>>

\* the engine collects object o while the runtime is alive
Collect ==
  \E o \in 1..Len(objs) :
    /\ rtState = "alive"
    /\ objs[o].state = "live"
    /\ Finalizer(o)
    /\ objs' = [objs EXCEPT ![o].state = "collected"]
    /\ UNCHANGED <<rtState, ctxMem, ctxFrees, slot, classAlloc, registered,
                   classRet, pendingExc>>
    /\ UNCHANGED <<intrVars, boxVars>>

\* __my_js_module_loader: dereferences the context pointer it was given
ModuleLoad ==
  /\ rtState = "alive"
  /\ uaf' = (uaf \/ ctxMem = "freed")
  /\ lastDispatch' = "MODULE"
  /\ UNCHANGED <<rtState, ctxMem, ctxFrees, slot, classAlloc, registered,
                 classRet, pendingExc, objs, freeLog>>
  /\ UNCHANGED <<intrVars, boxVars>>

\* js_promise_rejection_tracker
PromiseTrack ==
  \E is_handled \in BOOLEAN :
    /\ rtState = "alive"
    /\ IF is_handled
         THEN UNCHANGED <<uaf, lastDispatch>>
         ELSE /\ uaf' = (uaf \/ ctxMem = "freed")
              /\ lastDispatch' = "PROMISE_TRACK"
    /\ UNCHANGED <<rtState, ctxMem, ctxFrees, slot, classAlloc, registered,
                   classRet, pendingExc, objs, freeLog>>
    /\ UNCHANGED <<intrVars, boxVars>>

\* a script runs: js_begin_call, js_interrupt_handler and js_channel read
\* the context (the METHOD dispatch goes through its channel)
MethodCall ==
  /\ rtState = "alive"
  /\ uaf' = (uaf \/ (slot # "NULL" /\ ctxMem = "freed"))
  /\ lastDispatch' = "METHOD"
  /\ UNCHANGED <<rtState, ctxMem, ctxFrees, slot, classAlloc, registered,
                 classRet, pendingExc, objs, freeLog>>
  /\ UNCHANGED <<intrVars, boxVars>>

\* JS_SetRuntimeOpaque(rt, NULL) in jsFreeRuntime
SlotAfterFree_Kept(s) == s

SlotAfterFree(s) == "NULL"

\* jsFreeRuntime up to the call of JS_FreeRuntime
jsFreeRuntime ==
  /\ rtState = "alive"
  /\ IF slot # "NULL"
       THEN ctxMem' = "freed" /\ ctxFrees' = ctxFrees + 1
       ELSE UNCHANGED <<ctxMem, ctxFrees>>
  /\ slot' = SlotAfterFree(slot)
  /\ rtState' = "teardown"
  /\ UNCHANGED <<uaf, classAlloc, registered, classRet, pendingExc, objs,
                 freeLog, lastDispatch>>
  /\ UNCHANGED <<intrVars, boxVars>>

\* JS_FreeRuntime finalizes an object that was still alive
TeardownFinalize ==
  \E o \in 1..Len(objs) :
    /\ rtState = "teardown"
    /\ objs[o].state = "live"
    /\ Finalizer(o)
    /\ objs' = [objs EXCEPT ![o].state = "torn"]
    /\ UNCHANGED <<rtState, ctxMem, ctxFrees, slot, classAlloc, registered,
                   classRet, pendingExc>>
    /\ UNCHANGED <<intrVars, boxVars>>

\* JS_FreeRuntime and with it jsFreeRuntime return
TeardownDone ==
  /\ rtState = "teardown"
  /\ \A o \in 1..Len(objs) : objs[o].state # "live"
  /\ rtState' = "dead"
  /\ UNCHANGED <<ctxMem, ctxFrees, slot, uaf, classAlloc, registered,
                 classRet, pendingExc, objs, freeLog, lastDispatch>>
  /\ UNCHANGED <<intrVars, boxVars>>

\* state after jsNewRuntime
InitObj ==
  /\ IntrIdle
  /\ ObjIdle
  /\ BoxIdle

NextObj ==
  \/ jsNewClass
  \/ jsGetException
  \/ jsNewObjectClass
  \/ Collect
  \/ ModuleLoad
  \/ PromiseTrack
  \/ MethodCall
  \/ jsFreeRuntime
  \/ TeardownFinalize
  \/ TeardownDone

SpecObj == InitObj /\ [][NextObj]_vars

----------------------------------------------------------------------------
\* Value Boxes of one engine value

\* _CPP_NEW_JSVALUE(val): a fresh allocated Box owning one reference
CPP_NEW_JSVALUE == [alloc |-> TRUE, releases |-> 0, frees |-> 0]

\* JS_DupValue: the reference count after the call
JS_DupValue_NoIncrement(r) == r

JS_DupValue(r) == r + 1

\* JS_FreeValue: the reference count after the call
JS_FreeValue(r) == IF r > 0 THEN r - 1 ELSE 0

\* whether jsFreeValue / jsFreeValueRT call JS_FreeValue for this flag
FreeReleasesRef(flag) == TRUE

\* whether jsFreeValue / jsFreeValueRT call _CPP_DELETE_JSVALUE
FreeDeletesBox_Always(flag) == TRUE

FreeDeletesBox(flag) == flag # 0

\* a bridge operation returns a new Box (jsNewObject, jsGetProperty, ...);
\* held: references to the value the engine keeps elsewhere
BoxValue ==
  \E held \in {0, 1} :
    /\ boxes = <<>>
    /\ boxes' = <<CPP_NEW_JSVALUE>>
    /\ rc' = held + 1
    /\ preDup' = held + 1
    /\ boxOp' = "box"
    /\ UNCHANGED <<nDup, overRelease, lastFlag>>
    /\ UNCHANGED <<intrVars, objVars>>

Dup(api, b) ==
  /\ Len(boxes) < MaxBoxes
  /\ boxOp' = api
  /\ boxes[b].alloc
  /\ boxes[b].releases = 0
  /\ rc' = JS_DupValue(rc)
  /\ boxes' = Append(boxes, CPP_NEW_JSVALUE)
  /\ nDup' = nDup + 1
  /\ UNCHANGED <<preDup, overRelease, lastFlag>>
  /\ UNCHANGED <<intrVars, objVars>>

jsDupValue == \E b \in 1..Len(boxes) : Dup("jsDupValue", b)
jsDupValueRT == \E b \in 1..Len(boxes) : Dup("jsDupValueRT", b)

Free(api, b, flag) ==
  /\ boxOp' = api
  /\ boxes[b].alloc
  /\ boxes[b].releases < 2
  /\ IF FreeReleasesRef(flag)
       THEN /\ rc' = JS_FreeValue(rc)
            /\ overRelease' = (overRelease \/ rc = 0)
       ELSE UNCHANGED <<rc, overRelease>>
  /\ boxes' = [boxes EXCEPT
                 ![b].releases = @ + 1,
                 ![b].alloc = IF FreeDeletesBox(flag) THEN FALSE ELSE @,
                 ![b].frees = IF FreeDeletesBox(flag) THEN @ + 1 ELSE @]
  /\ lastFlag' = flag
  /\ UNCHANGED <<preDup, nDup>>
  /\ UNCHANGED <<intrVars, objVars>>

jsFreeValue ==
  \E b \in 1..Len(boxes), flag \in Flags : Free("jsFreeValue", b, flag)
jsFreeValueRT ==
  \E b \in 1..Len(boxes), flag \in Flags : Free("jsFreeValueRT", b, flag)

InitBox ==
  /\ IntrIdle
  /\ ObjIdle
  /\ BoxIdle

NextBox ==
  \/ BoxValue
  \/ jsDupValue
  \/ jsDupValueRT
  \/ jsFreeValue
  \/ jsFreeValueRT

SpecBox == InitBox /\ [][NextBox]_vars

----------------------------------------------------------------------------
\* Properties of the interrupt monitor (checked under Spec)

\* elapsed time since call-start exceeds the timeout (milliseconds against
\* clock ticks, compared without division)
Overdue ==
  timeout # 0 /\ start # 0 /\ (clock - start) * 1000 > timeout * CLOCKS_PER_SEC

\* C1: every poll of js_interrupt_handler signals abort iff timeout # 0,
\* call-start # 0 and elapsed(call-start) > timeout, and then sets
\* call-start to 0; otherwise it signals continue and leaves call-start and
\* timeout unchanged.  A runtime created with timeout = 0 is never aborted.
C1_PollContract ==
  /\ [][lastOp' = "poll" =>
          /\ (signal' = 1) <=> Overdue
          /\ Overdue => start' = 0
          /\ ~Overdue => (signal' = 0 /\ start' = start)
          /\ timeout' = timeout]_vars
  /\ [](timeout = 0 =>
          (signal = 0 /\ \A i \in 1..Len(stack) : stack[i].aborts = 0))

\* a poll has just signalled abort and cleared call-start
C1_Witness ==
  lastOp = "poll" /\ signal = 1 /\ start = 0 /\ timeout # 0

\* C2 as claimed: entering jsEval, jsCall, the METHOD dispatch of
\* js_channel and jsExecutePendingJob stamps call-start with the current
\* time, and every poll during the operation measures from its entry.
C2_Original ==
  [][/\ (lastOp' \in {"jsEval", "jsCall", "js_channel", "jsExecutePendingJob"}
           /\ stack' # stack) => start' = clock
     /\ (lastOp' = "poll" /\ start # 0) => start = Top.entry]_vars

\* C2 (amended): entering jsEval, jsCall, jsToCString and
\* jsExecutePendingJob stamps call-start with the current time before the
\* engine runs; the METHOD dispatch of js_channel leaves call-start as it
\* is; a poll made during a stamped operation inside which no nested
\* stamped call was made, and before an abort, measures elapsed time from
\* that operation's entry.
C2_Stamps ==
  [][/\ (lastOp' \in StampedOps /\ stack' # stack) => start' = clock
     /\ lastOp' = "js_channel" => start' = start
     /\ (lastOp' = "poll" /\ Top.op \in StampedOps /\ ~Top.nested /\ start # 0)
          => start = Top.entry]_vars

\* a nested jsCall issued from a host callback has just re-stamped
C2_Witness ==
  /\ lastOp = "jsCall" /\ Len(stack) = 2
  /\ start = clock /\ stack[1].entry < clock
  /\ stack[1].op \in StampedOps

\* C3 as claimed: for one host-issued jsEval, jsCall or jsExecutePendingJob,
\* from entry until return, abort is signalled at most once, for any
\* nesting of host callbacks and bridge calls.
C3_Original ==
  \A i \in 1..Len(stack) :
    stack[i].op \in {"jsEval", "jsCall", "jsExecutePendingJob"}
      => stack[i].aborts <= 1

\* C3 (amended): for one host-issued call, from entry until return, abort
\* is signalled at most once provided no nested stamped bridge call is made
\* from a host callback during it (each js_begin_call re-arms the monitor).
C3_OneShot ==
  \A i \in 1..Len(stack) : ~stack[i].nested => stack[i].aborts <= 1

\* a call that already saw its abort (in a nested unstamped call) is polled
\* again and continues
C3_Witness ==
  /\ lastOp = "poll" /\ signal = 0 /\ Len(stack) = 1
  /\ stack[1].aborts = 1 /\ ~stack[1].nested
  /\ (clock - stack[1].entry) * 1000 > timeout * CLOCKS_PER_SEC

\* C10 as claimed: call-start is nonzero only while a stamped operation is
\* in flight, so a poll during an operation that does not stamp never
\* signals abort.
C10_Original ==
  /\ start # 0 => \E i \in 1..Len(stack) : stack[i].op \in StampedOps
  /\ (lastOp = "poll" /\ signal = 1)
       => \E i \in 1..Len(stack) : stack[i].op \in StampedOps

----------------------------------------------------------------------------
\* Properties of the class/opaque registry and the runtime lifecycle
\* (checked under SpecObj)

\* ids returned by successful jsNewClass(name) calls
ReturnedIds(name) ==
  {classRet[name][i] : i \in 1..Len(classRet[name])} \ {0}

\* C4 as claimed: jsNewClass is an idempotent lookup-or-create: two calls
\* with the same name return the same class id, and the class is created
\* in the engine at most once per kind.
C4_Original ==
  \A name \in ClassNames :
    /\ Cardinality(ReturnedIds(name)) <= 1
    /\ Cardinality({r \in registered : r[2] = name}) <= 1

\* number of FREE_OBJECT dispatches whose payload is p
Dispatches(p) == Cardinality({i \in 1..Len(freeLog) : freeLog[i].ptr = p})

\* C5: an object made by jsNewObjectClass with pointer p gets, when it is
\* collected while the runtime is alive, exactly one FREE_OBJECT dispatch,
\* with payload p, made before the Runtime Context is freed; when it is
\* collected after the Runtime Context was released, no dispatch is made.
C5_Finalizer ==
  [][/\ \A o \in 1..Len(objs) :
          /\ (objs[o].state = "live" /\ objs'[o].state = "collected")
               => freeLog' = Append(freeLog, [ptr |-> objs[o].given,
                                              ctx |-> "allocated"])
          /\ (objs[o].state = "live" /\ objs'[o].state = "torn")
               => (ctxMem = "freed" /\ freeLog' = freeLog)
     /\ freeLog' # freeLog =>
          \E o \in 1..Len(objs) :
            objs[o].state = "live" /\ objs'[o].state = "collected"]_vars

\* one object was collected and dispatched, another was finalized by the
\* teardown
C5_Witness ==
  /\ rtState = "teardown"
  /\ \E o \in 1..Len(objs) : objs[o].state = "torn"
  /\ \E o \in 1..Len(objs) :
       objs[o].state = "collected" /\ Dispatches(objs[o].given) = 1

\* C6 as claimed: once jsFreeRuntime has run, every attached pointer has
\* received exactly one FREE_OBJECT dispatch, also when its object was
\* still alive at jsFreeRuntime.
C6_Original ==
  rtState = "dead" =>
    \A o \in 1..Len(objs) : Dispatches(objs[o].given) = 1

\* C6 (amended): an attached pointer receives exactly one FREE_OBJECT
\* dispatch if its object is collected before jsFreeRuntime, and none if
\* the object is still alive when jsFreeRuntime is called; never more than
\* one.
C6_ExactlyOnceIfCollected ==
  \A o \in 1..Len(objs) :
    /\ objs[o].state = "collected" => Dispatches(objs[o].given) = 1
    /\ objs[o].state \in {"live", "torn"} => Dispatches(objs[o].given) = 0

\* the runtime is gone; one pointer got its dispatch, another never will
C6_Witness ==
  /\ rtState = "dead"
  /\ \E o \in 1..Len(objs) : Dispatches(objs[o].given) = 1
  /\ \E o \in 1..Len(objs) : Dispatches(objs[o].given) = 0

\* C7: the Runtime Context is freed exactly once, by jsFreeRuntime, and is
\* never dereferenced after that: no hook and no finalizer running inside
\* the teardown reads it, and a finalizer that finds the slot null makes
\* no dispatch.
C7_ContextLifetime ==
  /\ ~uaf
  /\ ctxFrees <= 1
  /\ (ctxMem = "freed") <=> (ctxFrees = 1)
  /\ (rtState = "alive") <=> (ctxMem = "allocated")
  /\ \A i \in 1..Len(freeLog) : freeLog[i].ctx = "allocated"

\* the teardown ran a finalizer after the context was freed
C7_Witness ==
  /\ rtState = "dead" /\ ctxMem = "freed"
  /\ \E o \in 1..Len(objs) : objs[o].state = "torn"
  /\ lastDispatch = "METHOD"

----------------------------------------------------------------------------
\* Properties of the Value Boxes (checked under SpecBox)

\* every Box was handed to jsFreeValue / jsFreeValueRT at most once
OncePerBox == \A b \in 1..Len(boxes) : boxes[b].releases <= 1

\* number of Boxes freed so far
NFreed == Cardinality({b \in 1..Len(boxes) : boxes[b].releases >= 1})

\* C8 as claimed: after N duplications and N+1 frees, once per Box, the
\* reference count is back at its pre-duplicate value.
C8_Original ==
  (boxes # <<>> /\ OncePerBox /\ NFreed = nDup + 1) => rc = preDup

\* C8 (amended): after N duplications and N+1 frees, once per Box, the
\* reference count is one below its pre-duplicate value (the reference the
\* original Box owned is released too); no Box and no engine reference is
\* freed twice; after k < N+1 frees the count is pre-duplicate + N - k,
\* above zero.
C8_RefCount ==
  (boxes # <<>> /\ OncePerBox) =>
    /\ Len(boxes) = nDup + 1
    /\ rc = preDup + nDup - NFreed
    /\ NFreed = nDup + 1 => rc = preDup - 1
    /\ NFreed < nDup + 1 => rc > 0
    /\ ~overRelease
    /\ \A b \in 1..Len(boxes) : boxes[b].frees <= 1

\* two duplications and three frees, one per Box
C8_Witness ==
  /\ nDup = 2 /\ NFreed = 3 /\ OncePerBox
  /\ rc = preDup - 1

\* the step is a jsFreeValue / jsFreeValueRT call on Box b
FreeStep(b) == boxes'[b].releases = boxes[b].releases + 1

\* C9 as claimed: the free operation releases the engine reference only if
\* the flag requests it and deallocates the Box on every call.
C9_Original ==
  [][\A b \in 1..Len(boxes) :
       FreeStep(b) =>
         /\ ~boxes'[b].alloc
         /\ (rc' # rc) <=> (lastFlag' # 0)]_vars

\* C9 (amended): the free operation releases the engine reference on every
\* call, and deallocates the Box only if the flag requests it.
C9_FreeFlag ==
  [][\A b \in 1..Len(boxes) :
       FreeStep(b) =>
         /\ rc > 0 => rc' = rc - 1
         /\ boxes'[b].alloc <=> (lastFlag' = 0)
         /\ boxes'[b].frees = boxes[b].frees + (IF lastFlag' = 0 THEN 0 ELSE 1)
    ]_vars

\* a free with flag 0 released the reference and left the Box allocated
C9_Witness ==
  /\ lastFlag = 0 /\ boxOp \in {"jsFreeValue", "jsFreeValueRT"}
  /\ \E b \in 1..Len(boxes) : boxes[b].alloc /\ boxes[b].releases = 1
  /\ rc < preDup + nDup

====
